---- MODULE Spec2Model ----
(***************************************************************************)
(* Model of src/device.rs: USB debug-probe classification (lookup), the    *)
(* per-family accessors (hash, device_type, serial_path, msd_path,         *)
(* openocd_serial) and search over an enumeration snapshot.                *)
(*                                                                         *)
(* Strings are sequences of one-character strings, so that slicing,        *)
(* starts_with, contains and replace are computed and not assumed.         *)
(* Option<T> is [tag |-> "None" | "Some", val]; a panic of the process is  *)
(* a value with tag "Panic...".                                            *)
(***************************************************************************)
EXTENDS Integers, Sequences, FiniteSets, TLC

VARIABLES
    ioreg,      \* what ioreg::enumerate() yields: Result<Vec<UsbDevice>>
    volumes,    \* what fs::read_dir("/Volumes/") yields, with each DETAILS.TXT
    filter,     \* the DeviceFilter of the last search()
    devices,    \* Result<Vec<Box<Device>>> of the last enumerate()/search()
    source,     \* which call produced devices: "none", "enumerate", "search"
    call,       \* the last accessor call: [op, dev]
    ret,        \* its outcome
    opened      \* indices of the volumes whose DETAILS.TXT that call opened

vars == <<ioreg, volumes, filter, devices, source, call, ret, opened>>

----------------------------------------------------------------------------
(* Bounds of the model. *)

MaxDevices == 2

MaxPrefixLen == 2

MaxVolumes == 2

MaxSerialLen == 8

----------------------------------------------------------------------------
(* Option, Result and panics. *)

None == [tag |-> "None", val |-> <<>>]

Some(v) == [tag |-> "Some", val |-> v]

Ok(v) == [ok |-> TRUE, val |-> v]

Err == [ok |-> FALSE, val |-> <<>>]

Panic(what) == [tag |-> what, val |-> <<>>]

IsPanic(r) == r.tag \in {"PanicSlice", "PanicOpen", "PanicRead"}

----------------------------------------------------------------------------
(* std string operations, on sequences of characters. *)

starts_with(s, p) == Len(p) <= Len(s) /\ SubSeq(s, 1, Len(p)) = p

contains(s, p) ==
    \E i \in 0..(Len(s) - Len(p)) : SubSeq(s, i + 1, i + Len(p)) = p

\* mutant of replace: only the first occurrence is replaced
RECURSIVE replace_FirstOnly(_, _, _)
replace_FirstOnly(s, from, to) ==
    IF s = <<>> THEN <<>>
    ELSE IF Head(s) = from THEN to \o Tail(s)
    ELSE <<Head(s)>> \o replace_FirstOnly(Tail(s), from, to)

RECURSIVE replace(_, _, _)
replace(s, from, to) ==
    IF s = <<>> THEN <<>>
    ELSE (IF Head(s) = from THEN to ELSE <<Head(s)>>) \o replace(Tail(s), from, to)

HexDigit(d) ==
    <<"0", "1", "2", "3", "4", "5", "6", "7",
      "8", "9", "a", "b", "c", "d", "e", "f">>[d + 1]

\* the n least significant hex digits of m >= 0, most significant first
RECURSIVE Nibbles(_, _)
Nibbles(m, n) ==
    IF n = 0 THEN <<>> ELSE Append(Nibbles(m \div 16, n - 1), m % 16)

RECURSIVE HexNat(_)
HexNat(m) ==
    IF m < 16 THEN <<HexDigit(m)>> ELSE Append(HexNat(m \div 16), HexDigit(m % 16))

\* format!("{:x}", n) of an i64: the two's complement bit pattern of n as an
\* unsigned 64-bit number, without leading zeros. For n < 0 the pattern is
\* 2^64 - 1 - m with m = -n - 1, whose digits are 15 minus those of m.
LowerHex(n) ==
    IF n >= 0 THEN HexNat(n)
    ELSE LET m == (-n) - 1
             ds == Nibbles(m, 16)
         IN  [k \in 1..16 |-> HexDigit(15 - ds[k])]

unwrap_or(o, d) == IF o.tag = "Some" THEN o.val ELSE d

----------------------------------------------------------------------------
(* UsbDevice and its hash. *)

UsbDevice(vid, pid, vs, ps, sn, loc) ==
    [vendor_id |-> vid, product_id |-> pid, vendor_string |-> vs,
     product_string |-> ps, serial_number |-> sn, location_id |-> loc]

\* as_bytes() of the characters the model's descriptor strings are made of,
\* each byte as its two hex digits
ByteHex(c) ==
    CASE c = "a" -> <<"6", "1">>
      [] c = "j" -> <<"6", "a">>
      [] c = "x" -> <<"7", "8">>
      [] c = "1" -> <<"3", "1">>

RECURSIVE BytesHex(_)
BytesHex(s) == IF s = <<>> THEN <<>> ELSE ByteHex(Head(s)) \o BytesHex(Tail(s))

Sha1HexLen == 40

\* sha1::Sha1 digest().to_string(): 40 lowercase hex digits, a function of the
\* bytes fed to update() in order. The digest is taken as collision-free and is
\* modelled by an injective map into 40 hex digits: the hex of the bytes,
\* zero-padded (the model's messages are shorter than 20 bytes, none zero).
Sha1Hex(bytes) ==
    LET h == BytesHex(bytes)
    IN  h \o [k \in 1..(Sha1HexLen - Len(h)) |-> "0"]

\* mutant of UsbHash: product_string is not fed to the digest
UsbHash_NoProduct(usb) == Sha1Hex(usb.vendor_string \o usb.serial_number)

UsbHash(usb) ==
    Sha1Hex(usb.vendor_string \o usb.product_string \o usb.serial_number)

----------------------------------------------------------------------------
(* The Device trait and its six implementations. A handle is [kind, usb]. *)

Device_hash(d) == UsbHash(d.usb)

is_unknown(d) == d.kind = "UnknownDevice"

device_type(d) ==
    CASE d.kind = "UnknownDevice"   -> None
      [] d.kind = "JLinkDevice"     -> Some(<<"J", "L", "i", "n", "k">>)
      [] d.kind = "StLinkV2Device"  -> Some(<<"S", "T", "L", "i", "n", "k", "V", "2">>)
      [] d.kind = "StLinkV21Device" -> Some(<<"S", "T", "L", "i", "n", "k", "V", "2", "1">>)
      [] d.kind = "TiIcdiDevice"    -> Some(<<"T", "I", "-", "I", "C", "D", "I">>)
      [] d.kind = "DapLinkDevice"   -> Some(<<"D", "A", "P", "L", "i", "n", "k">>)

DevCuUsbmodem == <<"/", "d", "e", "v", "/", "c", "u", ".", "u", "s", "b", "m", "o", "d", "e", "m">>

JLinkDevice_serial_path(usb) ==
    Some(DevCuUsbmodem
         \o replace(LowerHex(unwrap_or(usb.location_id, 0)), "0", <<>>)
         \o <<"1">>)

StLinkV21Device_serial_path(usb) ==
    Some(DevCuUsbmodem
         \o replace(LowerHex(unwrap_or(usb.location_id, 0)), "0", <<>>)
         \o <<"3">>)

\* &serial_number[..7] panics when the string is shorter than 7 bytes (the
\* model's serial numbers are ASCII: one byte per character)
TiIcdiDevice_serial_path(usb) ==
    IF Len(usb.serial_number) < 7 THEN Panic("PanicSlice")
    ELSE Some(DevCuUsbmodem \o SubSeq(usb.serial_number, 1, 7) \o <<"1">>)

DapLinkDevice_serial_path(usb) ==
    Some(DevCuUsbmodem
         \o replace(LowerHex(unwrap_or(usb.location_id, 0)), "0", <<>>)
         \o <<"2">>)

serial_path(d) ==
    CASE d.kind = "JLinkDevice"     -> JLinkDevice_serial_path(d.usb)
      [] d.kind = "StLinkV21Device" -> StLinkV21Device_serial_path(d.usb)
      [] d.kind = "TiIcdiDevice"    -> TiIcdiDevice_serial_path(d.usb)
      [] d.kind = "DapLinkDevice"   -> DapLinkDevice_serial_path(d.usb)
      [] OTHER                      -> None

JLinkDevice_openocd_serial(usb) == Some(<<"j", "l", "i", "n", "k", "_", "s", "e", "r", "i", "a", "l", " ">> \o usb.serial_number)

StLinkV2Device_openocd_serial(usb) == Some(<<"h", "l", "a", "_", "s", "e", "r", "i", "a", "l", " ">> \o usb.serial_number)

StLinkV21Device_openocd_serial(usb) == Some(<<"h", "l", "a", "_", "s", "e", "r", "i", "a", "l", " ">> \o usb.serial_number)

TiIcdiDevice_openocd_serial(usb) == Some(<<"h", "l", "a", "_", "s", "e", "r", "i", "a", "l", " ">> \o usb.serial_number)

\* mutant of DapLinkDevice_openocd_serial: the ST-Link keyword
DapLinkDevice_openocd_serial_Hla(usb) == Some(<<"h", "l", "a", "_", "s", "e", "r", "i", "a", "l", " ">> \o usb.serial_number)

DapLinkDevice_openocd_serial(usb) ==
    Some(<<"c", "m", "s", "i", "s", "_", "d", "a", "p", "_", "s", "e", "r", "i", "a", "l", " ">> \o usb.serial_number)

openocd_serial(d) ==
    CASE d.kind = "JLinkDevice"     -> JLinkDevice_openocd_serial(d.usb)
      [] d.kind = "StLinkV2Device"  -> StLinkV2Device_openocd_serial(d.usb)
      [] d.kind = "StLinkV21Device" -> StLinkV21Device_openocd_serial(d.usb)
      [] d.kind = "TiIcdiDevice"    -> TiIcdiDevice_openocd_serial(d.usb)
      [] d.kind = "DapLinkDevice"   -> DapLinkDevice_openocd_serial(d.usb)
      [] OTHER                      -> None

----------------------------------------------------------------------------
(* DapLinkDevice::msd_path: the scan of /Volumes/.                         *)
(* A directory entry is [ok, name, details]; ok is FALSE for an entry the  *)
(* iterator yields as Err. details is the DETAILS.TXT below it:            *)
(* [state |-> "missing" | "unreadable" | "text", text].                    *)

VolumesDir == <<"/", "V", "o", "l", "u", "m", "e", "s", "/">>

VolumesDaplink == <<"/", "V", "o", "l", "u", "m", "e", "s", "/", "D", "A", "P", "L", "I", "N", "K">>

VolumePath(v) == VolumesDir \o v.name

\* mutant of MsdScan: the name of the volume is not looked at
RECURSIVE MsdScan_AnyVolume(_, _, _)
MsdScan_AnyVolume(vols, i, serial_number) ==
    IF i > Len(vols) THEN [ret |-> None, opened |-> <<>>]
    ELSE LET v == vols[i] IN
         IF ~v.ok THEN MsdScan_AnyVolume(vols, i + 1, serial_number)
         ELSE IF v.details.state = "missing"
         THEN [ret |-> Panic("PanicOpen"), opened |-> <<i>>]
         ELSE IF v.details.state = "unreadable"
         THEN [ret |-> Panic("PanicRead"), opened |-> <<i>>]
         ELSE IF contains(v.details.text, serial_number)
         THEN [ret |-> Some(VolumePath(v)), opened |-> <<i>>]
         ELSE LET rest == MsdScan_AnyVolume(vols, i + 1, serial_number)
              IN  [ret |-> rest.ret, opened |-> <<i>> \o rest.opened]

\* the for loop from entry i on; opened lists the entries whose DETAILS.TXT
\* the loop tried to open
RECURSIVE MsdScan(_, _, _)
MsdScan(vols, i, serial_number) ==
    IF i > Len(vols) THEN [ret |-> None, opened |-> <<>>]
    ELSE LET v == vols[i] IN
         IF ~v.ok THEN MsdScan(vols, i + 1, serial_number)
         ELSE IF ~starts_with(VolumePath(v), VolumesDaplink)
         THEN MsdScan(vols, i + 1, serial_number)
         ELSE IF v.details.state = "missing"
         THEN [ret |-> Panic("PanicOpen"), opened |-> <<i>>]
         ELSE IF v.details.state = "unreadable"
         THEN [ret |-> Panic("PanicRead"), opened |-> <<i>>]
         ELSE IF contains(v.details.text, serial_number)
         THEN [ret |-> Some(VolumePath(v)), opened |-> <<i>>]
         ELSE LET rest == MsdScan(vols, i + 1, serial_number)
              IN  [ret |-> rest.ret, opened |-> <<i>> \o rest.opened]

DapLinkDevice_msd_path(usb, read_dir) ==
    IF read_dir.ok THEN MsdScan(read_dir.val, 1, usb.serial_number)
    ELSE [ret |-> None, opened |-> <<>>]

msd_path(d, read_dir) ==
    IF d.kind = "DapLinkDevice" THEN DapLinkDevice_msd_path(d.usb, read_dir)
    ELSE [ret |-> None, opened |-> <<>>]

----------------------------------------------------------------------------
(* lookup, enumerate, search. *)

Handle(kind, usb) == [kind |-> kind, usb |-> usb]

\* mutant of lookup: a J-Link is recognised by its vendor id alone
lookup_JLinkByVendor(usb) ==
    LET id == <<usb.vendor_id, usb.product_id>> IN
    CASE id = <<\h0d28, \h0204>> -> Handle("DapLinkDevice", usb)
      [] id = <<\h03eb, \h2157>> -> Handle("DapLinkDevice", usb)
      [] id = <<\h0483, \h3748>> -> Handle("StLinkV2Device", usb)
      [] id = <<\h0483, \h374b>> -> Handle("StLinkV21Device", usb)
      [] usb.vendor_id = \h1366  -> Handle("JLinkDevice", usb)
      [] id = <<\h1cbe, \h00fd>> -> Handle("TiIcdiDevice", usb)
      [] OTHER                   -> Handle("UnknownDevice", usb)

lookup(usb) ==
    LET id == <<usb.vendor_id, usb.product_id>> IN
    CASE id = <<\h0d28, \h0204>> -> Handle("DapLinkDevice", usb)
      [] id = <<\h03eb, \h2157>> -> Handle("DapLinkDevice", usb)
      [] id = <<\h0483, \h3748>> -> Handle("StLinkV2Device", usb)
      [] id = <<\h0483, \h374b>> -> Handle("StLinkV21Device", usb)
      [] id = <<\h1366, \h0101>> -> Handle("JLinkDevice", usb)
      [] id = <<\h1366, \h0105>> -> Handle("JLinkDevice", usb)
      [] id = <<\h1cbe, \h00fd>> -> Handle("TiIcdiDevice", usb)
      [] OTHER                   -> Handle("UnknownDevice", usb)

enumerate ==
    IF ioreg.ok
    THEN Ok([i \in 1..Len(ioreg.val) |-> lookup(ioreg.val[i])])
    ELSE Err

\* From<&ArgMatches>: all is the presence of --all, device the value of
\* --device when given
DeviceFilter(all, device) == [all |-> all, device |-> device]

\* mutant of Keep: the test of --all is inverted
Keep_AllInverted(d, f) ==
    IF f.all /\ is_unknown(d) THEN FALSE
    ELSE IF f.device.tag = "Some" /\ ~starts_with(Device_hash(d), f.device.val)
    THEN FALSE
    ELSE TRUE

\* mutant of Keep: the fingerprint must equal the selector
Keep_WholeHash(d, f) ==
    IF ~f.all /\ is_unknown(d) THEN FALSE
    ELSE IF f.device.tag = "Some" /\ Device_hash(d) # f.device.val
    THEN FALSE
    ELSE TRUE

\* the closure search() filters with
Keep(d, f) ==
    IF ~f.all /\ is_unknown(d) THEN FALSE
    ELSE IF f.device.tag = "Some" /\ ~starts_with(Device_hash(d), f.device.val)
    THEN FALSE
    ELSE TRUE

\* mutant of FilterCollect: the kept handles come out last first
RECURSIVE FilterCollect_Reversed(_, _)
FilterCollect_Reversed(ds, f) ==
    IF ds = <<>> THEN <<>>
    ELSE FilterCollect_Reversed(Tail(ds), f)
         \o (IF Keep(Head(ds), f) THEN <<Head(ds)>> ELSE <<>>)

\* Iterator::filter(..).collect()
RECURSIVE FilterCollect(_, _)
FilterCollect(ds, f) ==
    IF ds = <<>> THEN <<>>
    ELSE (IF Keep(Head(ds), f) THEN <<Head(ds)>> ELSE <<>>)
         \o FilterCollect(Tail(ds), f)

search(f) ==
    LET e == enumerate
    IN  IF e.ok THEN Ok(FilterCollect(e.val, f)) ELSE Err

----------------------------------------------------------------------------
(* Inputs: the records ioreg reports, the mounted volumes, the filters.    *)

\* all sequences over S of length at most n
RECURSIVE SeqsUpTo(_, _)
SeqsUpTo(S, n) ==
    IF n = 0 THEN {<<>>}
    ELSE LET shorter == SeqsUpTo(S, n - 1)
         IN  shorter \cup {Append(q, x) : q \in shorter, x \in S}

VendorIds == {\h0d28, \h03eb, \h0483, \h1366, \h1cbe, \h9999, \hffff}

ProductIds == {\h0204, \h2157, \h3748, \h374b, \h0101, \h0105, \h00fd, \h9999, 0}

SerialPattern == <<"a", "1", "j", "x">>

\* serial numbers of every length up to MaxSerialLen
SerialNumbers ==
    {[k \in 1..n |-> SerialPattern[((k - 1) % 4) + 1]] : n \in 0..MaxSerialLen}

LocationIds ==
    {None, Some(0), Some(\h1a03), Some(\h10), Some(\h14200000),
     Some(\ha0b0c), Some(-1), Some(-\h1a03)}

AccessorRecords ==
    {UsbDevice(vid, pid, vs, ps, sn, loc) :
        vid \in VendorIds, pid \in ProductIds,
        vs \in {<<>>, <<"a">>}, ps \in {<<>>, <<"j">>},
        sn \in SerialNumbers, loc \in LocationIds}

\* records for search and hash: two with the same strings and different ids, two
\* whose strings differ and concatenate to the same bytes, known and Unknown
\* ones with the same fingerprint, one whose fingerprint extends another's
SearchRecords ==
    {UsbDevice(\h1366, \h0101, <<"a">>, <<>>, <<>>, None),
     UsbDevice(\h1366, \h0204, <<"a">>, <<>>, <<>>, None),
     UsbDevice(\h1366, \h0204, <<>>, <<"a">>, <<>>, None),
     UsbDevice(\h1366, \h0105, <<>>, <<>>, <<"j">>, None),
     UsbDevice(\h9999, \h9999, <<>>, <<>>, <<"j">>, Some(0)),
     UsbDevice(\h0d28, \h0204, <<"a">>, <<>>, <<"j">>, Some(\h1a03))}

PrefixChars == {"6", "a", "A"}

Filters ==
    {DeviceFilter(all, device) :
        all \in BOOLEAN,
        device \in {None} \cup {Some(p) : p \in SeqsUpTo(PrefixChars, MaxPrefixLen)}}

Details(state, text) == [state |-> state, text |-> text]

DirEntry(name, details) == [ok |-> TRUE, name |-> name, details |-> details]

DirEntryErr == [ok |-> FALSE, name |-> <<>>, details |-> Details("missing", <<>>)]

VolumeNames == {<<"D", "A", "P", "L", "I", "N", "K">>, <<"D", "A", "P", "L", "I", "N", "K", "1">>, <<"D", "A", "P", "L", "I", "N">>, <<"H", "D">>}

DetailsFiles ==
    {Details("missing", <<>>), Details("unreadable", <<>>),
     Details("text", <<>>), Details("text", <<"x", "a", "j", "x">>), Details("text", <<"j", "a">>)}

DirEntries ==
    {DirEntry(n, d) : n \in VolumeNames, d \in DetailsFiles} \cup {DirEntryErr}

MsdRecords ==
    {UsbDevice(\h0d28, \h0204, <<>>, <<>>, sn, None) : sn \in {<<>>, <<"a", "j">>, <<"j", "a">>}}
    \cup {UsbDevice(id[1], id[2], <<>>, <<>>, <<"a", "j">>, None) :
            id \in {<<\h03eb, \h2157>>, <<\h0483, \h3748>>, <<\h0483, \h374b>>,
                    <<\h1366, \h0101>>, <<\h1cbe, \h00fd>>, <<\h9999, \h9999>>}}

OneVolume == Ok(<<DirEntry(<<"D", "A", "P", "L", "I", "N", "K">>, Details("text", <<"x", "a", "1", "j", "x">>))>>)

NoCall == [op |-> "none", dev |-> 0]

InitRest ==
    /\ filter = DeviceFilter(FALSE, None)
    /\ devices = Ok(<<>>)
    /\ source = "none"
    /\ call = NoCall
    /\ ret = None
    /\ opened = <<>>

\* one attached device of any kind, one mounted DAPLINK volume
Init ==
    /\ ioreg \in {Ok(<<u>>) : u \in AccessorRecords}
    /\ volumes = OneVolume
    /\ InitRest

\* up to MaxDevices attached devices, or ioreg failing
InitSearch ==
    /\ ioreg \in {Ok(q) : q \in SeqsUpTo(SearchRecords, MaxDevices)} \cup {Err}
    /\ volumes = OneVolume
    /\ InitRest

\* one attached device, up to MaxVolumes entries in /Volumes/ or no listing
InitMsd ==
    /\ ioreg \in {Ok(<<u>>) : u \in MsdRecords}
    /\ volumes \in {Ok(q) : q \in SeqsUpTo(DirEntries, MaxVolumes)} \cup {Err}
    /\ InitRest

----------------------------------------------------------------------------
(* Actions: the calls of the public API. A panic ends the process. *)

Str(v) == [tag |-> "String", val |-> v]

Bool(b) == [tag |-> IF b THEN "true" ELSE "false", val |-> <<>>]

Enumerate ==
    /\ ~IsPanic(ret)
    /\ devices' = enumerate
    /\ source' = "enumerate"
    /\ call' = NoCall /\ ret' = None /\ opened' = <<>>
    /\ UNCHANGED <<ioreg, volumes, filter>>

Search(f) ==
    /\ ~IsPanic(ret)
    /\ filter' = f
    /\ devices' = search(f)
    /\ source' = "search"
    /\ call' = NoCall /\ ret' = None /\ opened' = <<>>
    /\ UNCHANGED <<ioreg, volumes>>

Callable(i) == ~IsPanic(ret) /\ devices.ok /\ i \in 1..Len(devices.val)

Hash(i) ==
    /\ Callable(i)
    /\ call' = [op |-> "hash", dev |-> i]
    /\ ret' = Str(Device_hash(devices.val[i]))
    /\ opened' = <<>>
    /\ UNCHANGED <<ioreg, volumes, filter, devices, source>>

IsUnknown(i) ==
    /\ Callable(i)
    /\ call' = [op |-> "is_unknown", dev |-> i]
    /\ ret' = Bool(is_unknown(devices.val[i]))
    /\ opened' = <<>>
    /\ UNCHANGED <<ioreg, volumes, filter, devices, source>>

DeviceType(i) ==
    /\ Callable(i)
    /\ call' = [op |-> "device_type", dev |-> i]
    /\ ret' = device_type(devices.val[i])
    /\ opened' = <<>>
    /\ UNCHANGED <<ioreg, volumes, filter, devices, source>>

SerialPath(i) ==
    /\ Callable(i)
    /\ call' = [op |-> "serial_path", dev |-> i]
    /\ ret' = serial_path(devices.val[i])
    /\ opened' = <<>>
    /\ UNCHANGED <<ioreg, volumes, filter, devices, source>>

MsdPath(i) ==
    /\ Callable(i)
    /\ call' = [op |-> "msd_path", dev |-> i]
    /\ LET r == msd_path(devices.val[i], volumes)
       IN  ret' = r.ret /\ opened' = r.opened
    /\ UNCHANGED <<ioreg, volumes, filter, devices, source>>

OpenocdSerial(i) ==
    /\ Callable(i)
    /\ call' = [op |-> "openocd_serial", dev |-> i]
    /\ ret' = openocd_serial(devices.val[i])
    /\ opened' = <<>>
    /\ UNCHANGED <<ioreg, volumes, filter, devices, source>>

Devs == 1..(MaxDevices + 1)

Next ==
    \/ Enumerate
    \/ \E i \in Devs : Hash(i)
    \/ \E i \in Devs : IsUnknown(i)
    \/ \E i \in Devs : DeviceType(i)
    \/ \E i \in Devs : SerialPath(i)
    \/ \E i \in Devs : MsdPath(i)
    \/ \E i \in Devs : OpenocdSerial(i)

NextSearch ==
    \/ Enumerate
    \/ \E f \in Filters : Search(f)
    \/ \E i \in Devs : Hash(i)

NextMsd ==
    \/ Enumerate
    \/ \E i \in Devs : MsdPath(i)

Spec == Init /\ [][Next]_vars

SpecSearch == InitSearch /\ [][NextSearch]_vars

SpecMsd == InitMsd /\ [][NextMsd]_vars

----------------------------------------------------------------------------
(* Statements about lookup and the accessors, checked under Spec. *)

\* the handle the last accessor call was made on
Target == devices.val[call.dev]

\* the classification table of the specification, by family name
FamilyOf(vid, pid) ==
    IF <<vid, pid>> \in {<<3368, 516>>, <<1003, 8535>>} THEN "DapLinkDevice"
    ELSE IF vid = 1155 /\ pid = 14152 THEN "StLinkV2Device"
    ELSE IF vid = 1155 /\ pid = 14155 THEN "StLinkV21Device"
    ELSE IF vid = 4966 /\ pid \in {257, 261} THEN "JLinkDevice"
    ELSE IF vid = 7358 /\ pid = 253 THEN "TiIcdiDevice"
    ELSE "UnknownDevice"

\* C1: lookup gives every record a handle of the family the table assigns to
\* its (vendor_id, product_id), Unknown for every pair not in the table; the
\* handle wraps the record unchanged, the family is the same whatever the
\* strings and location_id are, and exactly the Unknown handles answer
\* is_unknown() with true and device_type() with None.
C1_LookupTotal ==
    source = "enumerate" =>
        /\ devices.ok
        /\ Len(devices.val) = Len(ioreg.val)
        /\ \A i \in 1..Len(ioreg.val) :
            LET u == ioreg.val[i]
                d == devices.val[i]
                bare == UsbDevice(u.vendor_id, u.product_id, <<>>, <<>>, <<>>, None)
            IN  /\ d.usb = u
                /\ d.kind = FamilyOf(u.vendor_id, u.product_id)
                /\ lookup(bare).kind = d.kind
        /\ call.op = "is_unknown" =>
            ret = Bool(FamilyOf(Target.usb.vendor_id, Target.usb.product_id)
                       = "UnknownDevice")
        /\ call.op = "device_type" =>
            (ret = None <=> FamilyOf(Target.usb.vendor_id, Target.usb.product_id)
                            = "UnknownDevice")

\* a pair made of a known vendor and another vendor's known product is Unknown
C1_Witness ==
    /\ source = "enumerate"
    /\ call.op = "is_unknown"
    /\ Target.usb.vendor_id = 1155 /\ Target.usb.product_id = 516
    /\ Target.usb.serial_number # <<>>
    /\ Target.kind = "UnknownDevice"
    /\ ret = Bool(TRUE)

\* C4: serial_path of a TiIcdi handle is None when serial_number is shorter
\* than 7 characters, and otherwise "/dev/cu.usbmodem", the first 7 characters
\* of serial_number and "1"; it never panics.
C4_TiIcdiSerialPath ==
    (call.op = "serial_path" /\ Target.kind = "TiIcdiDevice") =>
        LET sn == Target.usb.serial_number
        IN  IF Len(sn) < 7 THEN ret = None
            ELSE ret = Some(DevCuUsbmodem \o [k \in 1..7 |-> sn[k]] \o <<"1">>)

\* the digits of the 64-bit two's complement pattern of n, most significant
\* first, without leading zeros (|n| < 2^31, so a negative n has 16 digits, the
\* upper 8 of them 15)
HexDigitsOf(n) ==
    IF n >= 0
    THEN LET len == IF n = 0 THEN 1
                    ELSE CHOOSE d \in 1..8 :
                            /\ n \div (16 ^ (d - 1)) > 0
                            /\ (d = 8 \/ n \div (16 ^ d) = 0)
         IN  [k \in 1..len |-> (n \div (16 ^ (len - k))) % 16]
    ELSE [k \in 1..16 |->
            IF k <= 8 THEN 15 ELSE 15 - ((((-n) - 1) \div (16 ^ (16 - k))) % 16)]

NonZeroHexChars ==
    <<"1", "2", "3", "4", "5", "6", "7", "8", "9", "a", "b", "c", "d", "e", "f">>

IsNonZero(x) == x # 0

\* H of the specification: the hex digits of the location id, the zero digits
\* left out
StrippedHex(loc) ==
    LET n == IF loc.tag = "Some" THEN loc.val ELSE 0
        nz == SelectSeq(HexDigitsOf(n), IsNonZero)
    IN  [k \in 1..Len(nz) |-> NonZeroHexChars[nz[k]]]

SuffixOf(kind) ==
    IF kind = "JLinkDevice" THEN "1"
    ELSE IF kind = "StLinkV21Device" THEN "3"
    ELSE "2"

\* C7: serial_path of a JLink, StLinkV21 or DapLink handle is
\* "/dev/cu.usbmodem" + H + suffix, H the lowercase hex digits of location_id
\* (0 when absent) with every 0 digit left out, suffix 1, 3, 2 respectively;
\* 0x1a03 on StLinkV21 gives ".../cu.usbmodem1a33", an absent or zero location
\* id an empty H; StLinkV2 and Unknown handles give None.
C7_LocationSerialPath ==
    call.op = "serial_path" =>
        /\ Target.kind \in {"JLinkDevice", "StLinkV21Device", "DapLinkDevice"} =>
            /\ ret = Some(DevCuUsbmodem \o StrippedHex(Target.usb.location_id)
                          \o <<SuffixOf(Target.kind)>>)
            /\ Target.usb.location_id \in {None, Some(0)} =>
                ret.val = Append(DevCuUsbmodem, SuffixOf(Target.kind))
            /\ (Target.kind = "StLinkV21Device"
                /\ Target.usb.location_id = Some(6659)) =>
                ret.val = DevCuUsbmodem \o <<"1", "a", "3", "3">>
        /\ Target.kind \in {"StLinkV2Device", "UnknownDevice"} => ret = None

C7_Witness ==
    /\ call.op = "serial_path"
    /\ Target.kind = "StLinkV21Device"
    /\ Target.usb.location_id = Some(6659)
    /\ ret = Some(<<"/", "d", "e", "v", "/", "c", "u", ".", "u", "s", "b", "m", "o", "d", "e", "m", "1", "a", "3", "3">>)

KeywordOf(kind) ==
    IF kind = "JLinkDevice" THEN <<"j", "l", "i", "n", "k", "_", "s", "e", "r", "i", "a", "l">>
    ELSE IF kind = "DapLinkDevice" THEN <<"c", "m", "s", "i", "s", "_", "d", "a", "p", "_", "s", "e", "r", "i", "a", "l">>
    ELSE <<"h", "l", "a", "_", "s", "e", "r", "i", "a", "l">>

\* C8: openocd_serial of a handle of a known family is the family's keyword, one
\* space and the serial_number unchanged; an Unknown handle gives None for
\* openocd_serial, serial_path and msd_path.
C8_OpenocdSerial ==
    /\ call.op = "openocd_serial" =>
        IF Target.kind = "UnknownDevice" THEN ret = None
        ELSE ret = Some(KeywordOf(FamilyOf(Target.usb.vendor_id,
                                           Target.usb.product_id))
                        \o <<" ">> \o Target.usb.serial_number)
    /\ (call.op \in {"serial_path", "msd_path"}
        /\ FamilyOf(Target.usb.vendor_id, Target.usb.product_id) = "UnknownDevice")
        => ret = None

C8_Witness ==
    /\ call.op = "openocd_serial"
    /\ Target.usb.vendor_id = 4966 /\ Target.usb.product_id = 257
    /\ Target.usb.serial_number = <<"a", "1", "j", "x", "a", "1", "j", "x">>
    /\ ret = Some(<<"j", "l", "i", "n", "k", "_", "s", "e", "r", "i", "a", "l", " ", "a", "1", "j", "x", "a", "1", "j", "x">>)

----------------------------------------------------------------------------
(* Statements about hash and search, checked under SpecSearch. *)

Triple(usb) == <<usb.vendor_string, usb.product_string, usb.serial_number>>

Concatenated(usb) == usb.vendor_string \o usb.product_string \o usb.serial_number

\* C9 as claimed: the fingerprints of two records are equal when their
\* (vendor_string, product_string, serial_number) triples are equal and differ
\* when the triples differ.
C9_TripleDecidesHash ==
    call.op = "hash" =>
        \A j \in 1..Len(devices.val) :
            (ret.val = Device_hash(devices.val[j]))
                <=> (Triple(devices.val[j].usb) = Triple(Target.usb))

\* C9 as amended: the fingerprints of two records are equal when their triples
\* are equal, whatever the ids and location, and more generally exactly when the
\* concatenations vendor_string + product_string + serial_number are equal.
C9_ConcatenationDecidesHash ==
    call.op = "hash" =>
        /\ ret.tag = "String" /\ Len(ret.val) = 40
        /\ \A j \in 1..Len(devices.val) :
            /\ Triple(devices.val[j].usb) = Triple(Target.usb)
                => ret.val = Device_hash(devices.val[j])
            /\ (ret.val = Device_hash(devices.val[j]))
                <=> (Concatenated(devices.val[j].usb) = Concatenated(Target.usb))

\* two records with different ids and different triples, the same fingerprint
C9_Witness ==
    /\ call.op = "hash"
    /\ \E j \in 1..Len(devices.val) :
        /\ Triple(devices.val[j].usb) # Triple(Target.usb)
        /\ devices.val[j].usb.product_id # Target.usb.product_id
        /\ ret.val = Device_hash(devices.val[j])

UnknownRecord(u) == FamilyOf(u.vendor_id, u.product_id) = "UnknownDevice"

\* the fingerprint of u starts with the characters of the filter's prefix, in
\* the same case; no prefix is no constraint
PrefixAdmits(f, u) ==
    f.device.tag = "Some" =>
        LET h == UsbHash(u)
            p == f.device.val
        IN  \A k \in 1..Len(p) : k <= Len(h) /\ h[k] = p[k]

\* C2: without --all, search returns no Unknown handle, every handle it returns
\* satisfies the prefix, and every enumerated record of a known family that
\* satisfies the prefix is returned.
C2_SearchDropsUnknown ==
    (source = "search" /\ ~filter.all) =>
        /\ devices.ok = ioreg.ok
        /\ \A k \in 1..Len(devices.val) :
            /\ devices.val[k].kind # "UnknownDevice"
            /\ ~UnknownRecord(devices.val[k].usb)
            /\ PrefixAdmits(filter, devices.val[k].usb)
        /\ \A i \in 1..Len(ioreg.val) :
            (~UnknownRecord(ioreg.val[i]) /\ PrefixAdmits(filter, ioreg.val[i]))
                => \E k \in 1..Len(devices.val) : devices.val[k].usb = ioreg.val[i]

\* an Unknown record whose fingerprint matches is dropped, a known one kept
C2_Witness ==
    /\ source = "search" /\ ~filter.all
    /\ filter.device = Some(<<"6", "a">>)
    /\ Len(ioreg.val) = 2 /\ Len(devices.val) = 1
    /\ \E i \in 1..2 : UnknownRecord(ioreg.val[i]) /\ PrefixAdmits(filter, ioreg.val[i])

\* the indices of the enumeration that the filter admits with --all
Admitted == {i \in 1..Len(ioreg.val) : PrefixAdmits(filter, ioreg.val[i])}

\* the k-th smallest element of a set of numbers
Nth(S, k) == CHOOSE i \in S : Cardinality({j \in S : j < i}) = k - 1

\* C3: with --all, search returns exactly the enumerated handles, Unknown ones
\* included, whose fingerprint starts with the prefix, each once and in the
\* order of the enumeration.
C3_SearchAllIsSubsequence ==
    (source = "search" /\ filter.all) =>
        /\ devices.ok = ioreg.ok
        /\ Len(devices.val) = Cardinality(Admitted)
        /\ \A k \in 1..Len(devices.val) :
            LET u == ioreg.val[Nth(Admitted, k)]
            IN  devices.val[k] = Handle(FamilyOf(u.vendor_id, u.product_id), u)

\* a known handle whose fingerprint does not match is dropped and the Unknown
\* one after it, whose fingerprint matches, is returned
C3_Witness ==
    /\ source = "search" /\ filter.all
    /\ filter.device = Some(<<"6", "a">>)
    /\ Len(ioreg.val) = 2 /\ Len(devices.val) = 1
    /\ ~UnknownRecord(ioreg.val[1])
    /\ devices.val[1] = Handle("UnknownDevice", ioreg.val[2])

\* C10: search with the empty prefix returns what search without a prefix
\* returns, for either value of --all.
C10_EmptyPrefixIsNoPrefix ==
    (source = "search" /\ filter.device = Some(<<>>)) =>
        /\ devices = search(DeviceFilter(filter.all, None))
        /\ filter.all => Len(devices.val) = Len(ioreg.val)

C10_Witness ==
    /\ source = "search"
    /\ filter = DeviceFilter(FALSE, Some(<<>>))
    /\ Len(ioreg.val) = 2 /\ Len(devices.val) = 1

----------------------------------------------------------------------------
(* Statements about msd_path, checked under SpecMsd. *)

Daplink == <<"D", "A", "P", "L", "I", "N", "K">>

\* the entries of /Volumes/ whose name starts with DAPLINK
Candidates ==
    {i \in 1..Len(volumes.val) :
        /\ volumes.val[i].ok
        /\ Len(volumes.val[i].name) >= 7
        /\ \A k \in 1..7 : volumes.val[i].name[k] = Daplink[k]}

Readable(i) == volumes.val[i].details.state = "text"

\* sn occurs in text at some offset
OccursIn(sn, text) ==
    \E o \in 0..Len(text) :
        \A k \in 1..Len(sn) : o + k <= Len(text) /\ text[o + k] = sn[k]

\* the candidates whose DETAILS.TXT can be read and holds the serial number
Matching(sn) ==
    {i \in Candidates : Readable(i) /\ OccursIn(sn, volumes.val[i].details.text)}

Least(S) == CHOOSE i \in S : \A j \in S : i <= j

PathOf(i) == <<"/", "V", "o", "l", "u", "m", "e", "s", "/">> \o volumes.val[i].name

\* C5: msd_path of a DapLink handle skips a DAPLINK* volume whose DETAILS.TXT is
\* missing or unreadable: when a later DAPLINK* volume has a readable
\* DETAILS.TXT holding the serial number, msd_path returns the first such
\* volume and does not abort.
C5_UnreadableVolumeSkipped ==
    (call.op = "msd_path" /\ Target.kind = "DapLinkDevice" /\ volumes.ok) =>
        LET m == Matching(Target.usb.serial_number)
        IN  (m # {} /\ \E i \in Candidates : ~Readable(i) /\ i < Least(m))
                => ret = Some(PathOf(Least(m)))

====
